---- MODULE Spec2Model ----
(***************************************************************************)
(* Model of extensions/poll_utils.py (PollUtils): the five export          *)
(* handlers (csv, json, yaml, pie, bar), which all have the shape          *)
(*                                                                         *)
(*     if poll := await self.process_poll_option(ctx, poll):               *)
(*         await ctx.defer()                                               *)
(*         async with poll.lock:                                           *)
(*             file = await asyncio.to_thread(write_buffer, poll)          *)
(*             await ctx.send(file=File(file, ...))                        *)
(*             file.close()                                                *)
(*     else:                                                               *)
(*         await ctx.send("Unable to export the requested poll!")          *)
(*                                                                         *)
(* and poll_autocomplete.  Export requests are cooperative tasks of one    *)
(* event loop; write_buffer runs on a worker thread and reads the live     *)
(* poll one option at a time.                                              *)
(***************************************************************************)
EXTENDS Integers, Sequences, FiniteSets, TLC

VARIABLES
    poll_options,   \* poll id -> sequence of [text, voters]: PollData.poll_options
    locked,         \* poll id -> BOOLEAN: poll.lock is taken
    waiters,        \* poll id -> FIFO of tasks suspended in poll.lock.acquire()
    pc,             \* task -> position in its handler
    req,            \* export task -> [fmt, poll]: the handler and the resolved poll
    held,           \* task -> poll whose "async with poll.lock" block it is inside
    buffer,         \* export task -> write_buffer's local "buffer"
    file,           \* export task -> state of the StringIO/BytesIO "file"
    sent,           \* export task -> what ctx.send has delivered to the caller
    hist,           \* export task -> states of the poll since write_buffer started
    ac,             \* the autocomplete call: its inputs, position and result
    enc,            \* one call of write_buffer: its poll, format and result
    plot            \* matplotlib.pyplot's module state and the chart threads

vars == <<poll_options, locked, waiters, pc, req, held, buffer, file, sent,
          hist, ac, enc, plot>>

exportVars == <<poll_options, locked, waiters, pc, req, held, buffer, file,
                sent, hist>>

(***************************************************************************)
(* Bounds of the model                                                     *)
(***************************************************************************)
NumExports == 2
NumVoters == 1

None == 0
PollIds == {1, 2}
Exporters == 1 .. NumExports
Mutator == NumExports + 1
Tasks == Exporters \cup {Mutator}
VoterIds == 1 .. NumVoters
Formats == {"csv", "json", "yaml", "pie", "bar"}

\* The polls held by the poll cache when the requests arrive: poll 1 has two
\* options, poll 2 has none.  Nobody has voted yet.
InitialOptions(p) ==
    IF p = 1 THEN << [text |-> "Pizza", voters |-> <<>>],
                     [text |-> "Salad", voters |-> <<>>] >>
    ELSE <<>>

(***************************************************************************)
(* get_user: the display name of a voter, or the raw id when the lookup    *)
(* fails.  Display names are numbers above 100, user 1 is known to the     *)
(* bot's cache and the other users are not.                                *)
(***************************************************************************)
KnownUsers == {1}
Username(v) == 100 + v
get_userOrNone(v) == IF v \in KnownUsers THEN Username(v) ELSE None
get_user(v) == IF v \in KnownUsers THEN Username(v) ELSE v

MapSeq(s, Op(_)) == [i \in 1 .. Len(s) |-> Op(s[i])]

\* one iteration of "for option in poll.poll_options" in write_buffer
BufferEntry(option) ==
    [text |-> option.text, names |-> MapSeq(option.voters, get_user)]

\* what write_buffer collects when it reads the whole of `options` at once
Collected(options) == MapSeq(options, BufferEntry)

RECURSIVE SumLen(_)
SumLen(b) == IF b = <<>> THEN 0 ELSE Len(Head(b).names) + SumLen(Tail(b))

(***************************************************************************)
(* The outcomes of the tail of write_buffer once `buffer` is built.        *)
(* csv: rotate takes max(map(len, input_list)), which raises ValueError    *)
(* on an empty list.  pie: plt.pie divides the counts by their sum; with a *)
(* zero sum the result depends on the matplotlib build (an exception, or   *)
(* an image of NaN wedges), so both outcomes are possible.                 *)
(***************************************************************************)
EncoderOutcomes(fmt, buf) ==
    IF fmt = "csv" /\ buf = <<>> THEN {"raise"}
    ELSE IF fmt = "pie" /\ SumLen(buf) = 0 THEN {"ok", "raise"}
    ELSE {"ok"}

\* What ctx.send hands to the caller: a file (File(file, file_name=...)) or
\* a text message.  Only the kind of outcome is recorded.
FilePayload == [kind |-> "file"]
UnableMessage == [kind |-> "message"]

(***************************************************************************)
(* asyncio.Lock as used by "async with poll.lock"                          *)
(***************************************************************************)
\* Lock.acquire takes the lock at once iff it is free and nobody is queued
CanAcquireAlways(p) == TRUE
CanAcquire(p) == ~locked[p] /\ waiters[p] = <<>>

\* entering "async with poll.lock": take the lock (-> pcIn) or queue
Enter(t, p, pcIn) ==
    IF CanAcquire(p)
    THEN /\ locked' = [locked EXCEPT ![p] = TRUE]
         /\ held' = [held EXCEPT ![t] = p]
         /\ pc' = [pc EXCEPT ![t] = pcIn]
         /\ UNCHANGED waiters
    ELSE /\ waiters' = [waiters EXCEPT ![p] = Append(@, t)]
         /\ pc' = [pc EXCEPT ![t] = "waiting"]
         /\ UNCHANGED <<locked, held>>

\* the first waiter is resumed once the lock has been released
ResumeEarly(t, p, pcIn) ==
    /\ pc[t] = "waiting"
    /\ waiters[p] # <<>> /\ Head(waiters[p]) = t
    /\ locked' = [locked EXCEPT ![p] = TRUE]
    /\ waiters' = [waiters EXCEPT ![p] = Tail(@)]
    /\ held' = [held EXCEPT ![t] = p]
    /\ pc' = [pc EXCEPT ![t] = pcIn]
Resume(t, p, pcIn) ==
    /\ pc[t] = "waiting"
    /\ waiters[p] # <<>> /\ Head(waiters[p]) = t
    /\ ~locked[p]
    /\ locked' = [locked EXCEPT ![p] = TRUE]
    /\ waiters' = [waiters EXCEPT ![p] = Tail(@)]
    /\ held' = [held EXCEPT ![t] = p]
    /\ pc' = [pc EXCEPT ![t] = pcIn]

\* leaving the "async with" block, normally or by an exception
Exit(t) ==
    /\ locked' = [locked EXCEPT ![held[t]] = FALSE]
    /\ held' = [held EXCEPT ![t] = None]

\* to_thread(write_buffer, poll) starts: an empty buffer, reading the live poll
StartEncoding(t, p) ==
    /\ buffer' = [buffer EXCEPT ![t] = <<>>]
    /\ hist' = [hist EXCEPT ![t] = {poll_options[p]}]

NoRequest == [fmt |-> "none", poll |-> None]

\* the handler is left: its locals (poll, write_buffer's buffer) are gone
Discard(t) ==
    /\ req' = [req EXCEPT ![t] = NoRequest]
    /\ buffer' = [buffer EXCEPT ![t] = <<>>]
    /\ hist' = [hist EXCEPT ![t] = {}]

(***************************************************************************)
(* The export handlers                                                     *)
(***************************************************************************)
\* The reference resolves to a poll of the cache (process_poll_option
\* returns it): ctx.defer(), then the handler enters "async with poll.lock"
\* and, with the lock, starts write_buffer on a worker thread.  The awaits
\* before the lock touch nothing shared, so they are one step with it.
ExportFound(t) ==
    /\ pc[t] = "resolving"
    /\ \E fmt \in Formats, p \in PollIds :
        /\ req' = [req EXCEPT ![t] = [fmt |-> fmt, poll |-> p]]
        /\ Enter(t, p, "encoding")
        /\ IF CanAcquire(p)
           THEN StartEncoding(t, p)
           ELSE UNCHANGED <<buffer, hist>>
    /\ UNCHANGED <<poll_options, file, sent, ac, enc, plot>>

\* process_poll_option returns nothing: the else branch,
\* await ctx.send("Unable to export the requested poll!")
ExportNotFoundSilent(t) ==
    /\ pc[t] = "resolving"
    /\ pc' = [pc EXCEPT ![t] = "failed"]
    /\ UNCHANGED <<poll_options, locked, waiters, req, held, buffer, file,
                   sent, hist, ac, enc, plot>>
ExportNotFound(t) ==
    /\ pc[t] = "resolving"
    /\ sent' = [sent EXCEPT ![t] = Append(@, UnableMessage)]
    /\ pc' = [pc EXCEPT ![t] = "failed"]
    /\ UNCHANGED <<poll_options, locked, waiters, req, held, buffer, file,
                   hist, ac, enc, plot>>

\* the queued handler gets the lock and starts write_buffer on a thread
Wake(t) ==
    /\ t \in Exporters
    /\ Resume(t, req[t].poll, "encoding")
    /\ StartEncoding(t, req[t].poll)
    /\ UNCHANGED <<poll_options, req, file, sent, ac, enc, plot>>

\* the worker thread reads the next option of the live poll
EncodeStep(t) ==
    /\ pc[t] = "encoding"
    /\ Len(buffer[t]) < Len(poll_options[req[t].poll])
    /\ buffer' = [buffer EXCEPT ![t] =
                    Append(@, BufferEntry(poll_options[req[t].poll][Len(@) + 1]))]
    /\ UNCHANGED <<poll_options, locked, waiters, pc, req, held, file, sent,
                   hist, ac, enc, plot>>

\* write_buffer returns the file: the handler goes on to ctx.send(file=...)
EncodeReturn(t) ==
    /\ pc[t] = "encoding"
    /\ Len(buffer[t]) >= Len(poll_options[req[t].poll])
    /\ "ok" \in EncoderOutcomes(req[t].fmt, buffer[t])
    /\ file' = [file EXCEPT ![t] = "open"]
    /\ pc' = [pc EXCEPT ![t] = "sending"]
    /\ UNCHANGED <<poll_options, locked, waiters, req, held, buffer, sent,
                   hist, ac, enc, plot>>

\* write_buffer raises: the exception leaves the "async with" block and the handler
EncodeRaise(t) ==
    /\ pc[t] = "encoding"
    /\ Len(buffer[t]) >= Len(poll_options[req[t].poll])
    /\ "raise" \in EncoderOutcomes(req[t].fmt, buffer[t])
    /\ Exit(t)
    /\ Discard(t)
    /\ pc' = [pc EXCEPT ![t] = "raised"]
    /\ UNCHANGED <<poll_options, waiters, file, sent, ac, enc, plot>>

\* ctx.send(file=...) returns; file.close(); the block ends
SendOk(t) ==
    /\ pc[t] = "sending"
    /\ sent' = [sent EXCEPT ![t] = Append(@, FilePayload)]
    /\ file' = [file EXCEPT ![t] = "closed"]
    /\ Exit(t)
    /\ Discard(t)
    /\ pc' = [pc EXCEPT ![t] = "delivered"]
    /\ UNCHANGED <<poll_options, waiters, ac, enc, plot>>

\* ctx.send(file=...) raises: file.close() is skipped, the block is left
SendFailNoRelease(t) ==
    /\ pc[t] = "sending"
    /\ Discard(t)
    /\ pc' = [pc EXCEPT ![t] = "send_failed"]
    /\ UNCHANGED <<poll_options, locked, waiters, held, file, sent, ac, enc, plot>>
SendFail(t) ==
    /\ pc[t] = "sending"
    /\ Exit(t)
    /\ Discard(t)
    /\ pc' = [pc EXCEPT ![t] = "send_failed"]
    /\ UNCHANGED <<poll_options, waiters, file, sent, ac, enc, plot>>

\* the task is cancelled while suspended inside "async with poll.lock":
\* queued for the lock, awaiting to_thread or awaiting ctx.send.  What a
\* worker thread still computes after that is dropped with the task.
Cancel(t) ==
    /\ pc[t] \in {"waiting", "encoding", "sending"}
    /\ IF pc[t] = "waiting"
       THEN /\ waiters' = [waiters EXCEPT ![req[t].poll] =
                              SelectSeq(@, LAMBDA u : u # t)]
            /\ UNCHANGED <<locked, held>>
       ELSE /\ Exit(t)
            /\ UNCHANGED waiters
    /\ Discard(t)
    /\ pc' = [pc EXCEPT ![t] = "cancelled"]
    /\ UNCHANGED <<poll_options, file, sent, ac, enc, plot>>

(***************************************************************************)
(* A voter-list mutation of the bot (a vote added or withdrawn), performed *)
(* under the poll's lock.                                                  *)
(***************************************************************************)
Toggle(vs, v) ==
    IF \E i \in 1 .. Len(vs) : vs[i] = v
    THEN SelectSeq(vs, LAMBDA u : u # v)
    ELSE Append(vs, v)

MutAcquire ==
    /\ pc[Mutator] = "idle"
    /\ \E p \in PollIds :
        /\ req' = [req EXCEPT ![Mutator] = [fmt |-> "none", poll |-> p]]
        /\ Enter(Mutator, p, "mutating")
    /\ UNCHANGED <<poll_options, buffer, file, sent, hist, ac, enc, plot>>

MutWake ==
    /\ Resume(Mutator, req[Mutator].poll, "mutating")
    /\ UNCHANGED <<poll_options, req, buffer, file, sent, hist, ac, enc, plot>>

Mutate ==
    /\ pc[Mutator] = "mutating"
    /\ LET p == req[Mutator].poll IN
       \E i \in 1 .. Len(poll_options[p]), v \in VoterIds :
        LET new == [poll_options[p] EXCEPT ![i].voters = Toggle(@, v)] IN
        /\ poll_options' = [poll_options EXCEPT ![p] = new]
        /\ hist' = [t \in Exporters |->
                      IF pc[t] = "encoding" /\ req[t].poll = p
                      THEN hist[t] \cup {new} ELSE hist[t]]
    /\ UNCHANGED <<locked, waiters, pc, req, held, buffer, file, sent, ac, enc, plot>>

MutRelease ==
    /\ pc[Mutator] = "mutating"
    /\ Exit(Mutator)
    /\ pc' = [pc EXCEPT ![Mutator] = "idle"]
    /\ req' = [req EXCEPT ![Mutator] = NoRequest]
    /\ UNCHANGED <<poll_options, waiters, buffer, file, sent, hist, ac, enc, plot>>

(***************************************************************************)
(* poll_autocomplete                                                       *)
(***************************************************************************)
MaxPolls == 3
NumUsers == 2
UserIds == 1 .. NumUsers

\* process.extract(..., limit=25) and polls[:25]
AutocompleteLimit == 25
\* "if p[1] > 50"
ScoreFloor == 50
\* the similarity scores the matcher can give (0..100), around the floor
ScoreValues == {0, ScoreFloor, ScoreFloor + 1, 100}

AcIdle == [pc |-> "idle"]
EncIdle == [pc |-> "idle"]
PlotIdle == [pc |-> "idle"]

Min(a, b) == IF a < b THEN a ELSE b
\* s[:n]
TakeAll(s, n) == s
Take(s, n) == SubSeq(s, 1, Min(n, Len(s)))

\* predicate(_poll): the caller owns the poll or has MANAGE_MESSAGES
predicateAll(_poll) == TRUE
predicate(_poll) ==
    IF _poll.author_id = ac.author THEN TRUE
    ELSE IF ac.manage THEN TRUE
    ELSE FALSE

\* the score process.extract gives the title of poll `id` for ctx.input_text
Score(id) == ac.score[id]

\* descending by score, equal scores in input order (heapq.nlargest)
RECURSIVE InsertByScore(_, _)
InsertByScore(x, sorted) ==
    IF sorted = <<>> THEN <<x>>
    ELSE IF Score(Head(sorted)) >= Score(x)
         THEN <<Head(sorted)>> \o InsertByScore(x, Tail(sorted))
         ELSE <<x>> \o sorted

RECURSIVE SortByScore(_)
SortByScore(ids) ==
    IF ids = <<>> THEN <<>>
    ELSE InsertByScore(ids[Len(ids)], SortByScore(SubSeq(ids, 1, Len(ids) - 1)))

\* {p.message_id: p.title for p in polls if predicate(p)}
Choices(polls) ==
    MapSeq(SelectSeq(polls, predicate), LAMBDA q : q.message_id)

\* process.extract(ctx.input_text, choices, limit=25)
Extract(choices) == Take(SortByScore(choices), AutocompleteLimit)

\* the list handed to ctx.send, as the message ids of its entries
ResultsFromFloor(polls) ==
    IF polls = <<>> THEN <<>>
    ELSE IF ac.input = "" THEN Take(MapSeq(polls, LAMBDA q : q.message_id),
                                     AutocompleteLimit)
    ELSE SelectSeq(Extract(Choices(polls)), LAMBDA id : Score(id) >= ScoreFloor)
Results(polls) ==
    IF polls = <<>> THEN <<>>
    ELSE IF ac.input = "" THEN Take(MapSeq(polls, LAMBDA q : q.message_id),
                                     AutocompleteLimit)
    ELSE SelectSeq(Extract(Choices(polls)), LAMBDA id : Score(id) > ScoreFloor)

PollAutocomplete ==
    /\ ac.pc = "called"
    /\ ac' = [ac EXCEPT !.pc = "sent", !.results = Results(ac.polls)]
    /\ UNCHANGED <<exportVars, enc, plot>>

\* guilds with as many polls as the limit, one more, and more than twice as
\* many: all polls of one author, or the authors taking turns
LargeSizes ==
    {AutocompleteLimit, AutocompleteLimit + 1, 2 * AutocompleteLimit + 2}

LargeGuilds ==
    UNION {{[i \in 1 .. n |-> u] : u \in UserIds}
           \cup {[i \in 1 .. n |-> (i % NumUsers) + 1]} : n \in LargeSizes}

\* the polls of the guild, as the author of each: message ids are unique and
\* ascending
GuildPolls ==
    UNION {[1 .. n -> UserIds] : n \in 0 .. MaxPolls} \cup LargeGuilds

\* the scores of the titles of a guild: every combination for a small guild;
\* for a large one all equal, alternating, or rising towards the newest
ScoreTables(owners) ==
    IF Len(owners) <= MaxPolls THEN [DOMAIN owners -> ScoreValues]
    ELSE {[i \in DOMAIN owners |-> v] : v \in ScoreValues}
         \cup {[i \in DOMAIN owners |-> IF i % 2 = 0 THEN 100 ELSE ScoreFloor + 1],
               [i \in DOMAIN owners |-> IF i % 3 = 0 THEN ScoreFloor ELSE 100],
               [i \in DOMAIN owners |-> IF i > 3 THEN 100
                                        ELSE IF i = 1 THEN ScoreFloor
                                        ELSE ScoreFloor + 1]}

InitExport ==
    /\ poll_options = [p \in PollIds |-> InitialOptions(p)]
    /\ locked = [p \in PollIds |-> FALSE]
    /\ waiters = [p \in PollIds |-> <<>>]
    /\ pc = [t \in Tasks |-> IF t = Mutator THEN "idle" ELSE "resolving"]
    /\ req = [t \in Tasks |-> NoRequest]
    /\ held = [t \in Tasks |-> None]
    /\ buffer = [t \in Exporters |-> <<>>]
    /\ file = [t \in Exporters |-> "none"]
    /\ sent = [t \in Exporters |-> <<>>]
    /\ hist = [t \in Exporters |-> {}]

InitAuto ==
    /\ InitExport
    /\ \E owners \in GuildPolls, a \in UserIds, m \in BOOLEAN, q \in {"", "lnch"} :
       \E sc \in ScoreTables(owners) :
        ac = [pc |-> "called",
              polls |-> [i \in DOMAIN owners |->
                            [message_id |-> i, author_id |-> owners[i]]],
              author |-> a, manage |-> m, input |-> q, score |-> sc,
              results |-> <<>>]
    /\ enc = EncIdle
    /\ plot = PlotIdle

NextAuto == PollAutocomplete

SpecAuto == InitAuto /\ [][NextAuto]_vars

Init ==
    /\ InitExport
    /\ ac = AcIdle
    /\ enc = EncIdle
    /\ plot = PlotIdle

Next ==
    \/ \E t \in Exporters : ExportFound(t)
    \/ \E t \in Exporters : ExportNotFound(t)
    \/ \E t \in Exporters : Wake(t)
    \/ \E t \in Exporters : EncodeStep(t)
    \/ \E t \in Exporters : EncodeReturn(t)
    \/ \E t \in Exporters : EncodeRaise(t)
    \/ \E t \in Exporters : SendOk(t)
    \/ \E t \in Exporters : SendFail(t)
    \/ \E t \in Exporters : Cancel(t)
    \/ MutAcquire
    \/ MutWake
    \/ Mutate
    \/ MutRelease

Spec == Init /\ [][Next]_vars

(***************************************************************************)
(* Scheduling: the event loop resumes every task whose await has           *)
(* completed, a worker thread runs write_buffer to its end, and ctx.send   *)
(* returns or raises.  Cancellation may or may not happen.                 *)
(***************************************************************************)
Fairness ==
    /\ \A t \in Exporters :
        /\ WF_vars(ExportFound(t))
        /\ WF_vars(ExportNotFound(t))
        /\ WF_vars(Wake(t))
        /\ WF_vars(EncodeStep(t) \/ EncodeReturn(t) \/ EncodeRaise(t))
        /\ WF_vars(SendOk(t) \/ SendFail(t))
    /\ WF_vars(MutWake)
    /\ WF_vars(MutRelease)

SpecFair == Init /\ [][Next]_vars /\ Fairness

(***************************************************************************)
(* write_buffer as a function of the poll: the five encoders               *)
(***************************************************************************)
MaxOptions == 2
NumEncVoters == 2

\* option texts, in alphabetical order
Texts == <<"Pizza", "Salad">>
TextRank(text) == CHOOSE i \in DOMAIN Texts : Texts[i] = text

EncVoterIds == 1 .. NumEncVoters

\* option.voters: user ids, no id twice
VoterLists ==
    {vs \in UNION {[1 .. n -> EncVoterIds] : n \in 0 .. NumEncVoters} :
        \A i \in DOMAIN vs, j \in DOMAIN vs : i # j => vs[i] # vs[j]}

\* poll.poll_options: any texts (also the same text twice), any voters
EncPolls ==
    UNION {[1 .. n -> [text : {Texts[i] : i \in DOMAIN Texts},
                       voters : VoterLists]] : n \in 0 .. MaxOptions}

MaxOf(S) == CHOOSE n \in S : \A m \in S : n >= m
MinOf(S) == CHOOSE n \in S : \A m \in S : n =< m

\* ---- csv --------------------------------------------------------------
\* Lists are objects: list i (1..n) is option i's live option.voters, and
\* "[option.text] + [...]" builds a new list for option i.
NewListAliased(i, n) == i
NewList(i, n) == n + i

\* sub_list.extend([None] * (expected_len - len(sub_list)))
Pad(sub_list, expected_len) ==
    sub_list \o [k \in 1 .. (expected_len - Len(sub_list)) |-> None]

\* list(zip(*input_list)): as many rows as the shortest list has cells
Zip(lists) ==
    IF lists = <<>> THEN <<>>
    ELSE [r \in 1 .. MinOf({Len(lists[c]) : c \in DOMAIN lists}) |->
            [c \in DOMAIN lists |-> lists[c][r]]]

\* rotate(input_list) on the lists `heap`: pads the lists in place, returns
\* the rows
rotate(heap, input_list) ==
    LET expected_len == MaxOf({Len(heap[input_list[i]]) : i \in DOMAIN input_list})
        padded == [k \in DOMAIN heap |->
                    IF \E i \in DOMAIN input_list : input_list[i] = k
                    THEN Pad(heap[k], expected_len) ELSE heap[k]]
    IN  [heap |-> padded,
         rows |-> Zip([i \in DOMAIN input_list |-> padded[input_list[i]]])]

\* export_csv.write_buffer up to writer.writerows(buffer): the lists after
\* rotate and the rows written (None is written as an empty field)
CsvWrite(options) ==
    LET n == Len(options)
        heap == [k \in 1 .. 2 * n |->
                    IF k <= n THEN options[k].voters
                    ELSE <<options[k - n].text>> \o BufferEntry(options[k - n]).names]
        buf == [i \in 1 .. n |-> NewList(i, n)]
    IN  rotate(heap, buf)

\* the poll's options once write_buffer has run on the lists `heap`
PollAfter(options, heap) ==
    [i \in DOMAIN options |-> [text |-> options[i].text, voters |-> heap[i]]]

\* ---- json, yaml, pie, bar ----------------------------------------------
\* buffer[option.text] = [...] on a dict kept as its items in insertion
\* order: a new key goes last, an old key keeps its place and gets the value
DictSet(d, entry) ==
    IF \E i \in DOMAIN d : d[i].text = entry.text
    THEN [i \in DOMAIN d |-> IF d[i].text = entry.text THEN entry ELSE d[i]]
    ELSE Append(d, entry)

RECURSIVE DictBuffer(_)
DictBuffer(options) ==
    IF options = <<>> THEN <<>>
    ELSE DictSet(DictBuffer(SubSeq(options, 1, Len(options) - 1)),
                 BufferEntry(options[Len(options)]))

\* json.dump(buffer, f): the members in the dict's order
JsonDump(d) == [i \in DOMAIN d |-> <<d[i].text, d[i].names>>]

\* yaml.dump(buffer, f, Dumper=Dumper): sort_keys is left at its default,
\* True, so the mapping is written with its keys sorted
RECURSIVE InsertByKey(_, _)
InsertByKey(x, sorted) ==
    IF sorted = <<>> THEN <<x>>
    ELSE IF TextRank(Head(sorted).text) <= TextRank(x.text)
         THEN <<Head(sorted)>> \o InsertByKey(x, Tail(sorted))
         ELSE <<x>> \o sorted

RECURSIVE SortByKey(_)
SortByKey(d) ==
    IF d = <<>> THEN <<>>
    ELSE InsertByKey(d[Len(d)], SortByKey(SubSeq(d, 1, Len(d) - 1)))

YamlDump(d) == JsonDump(SortByKey(d))

\* arr = np.array([len(x) for x in buffer.values()]); labels = list(buffer.keys())
Counts(d) == [i \in DOMAIN d |-> Len(d[i].names)]
Labels(d) == [i \in DOMAIN d |-> d[i].text]
Chart(d) == [arr |-> Counts(d), labels |-> Labels(d)]

\* `buffer` as the tail of write_buffer sees it
BufferOf(fmt, options) ==
    IF fmt = "csv" THEN Collected(options) ELSE DictBuffer(options)

\* what write_buffer puts into f
Output(fmt, options) ==
    IF fmt = "csv" THEN CsvWrite(options).rows
    ELSE IF fmt = "json" THEN JsonDump(DictBuffer(options))
    ELSE IF fmt = "yaml" THEN YamlDump(DictBuffer(options))
    ELSE Chart(DictBuffer(options))

\* the poll's options after write_buffer has returned
OptionsAfter(fmt, options) ==
    IF fmt = "csv" THEN PollAfter(options, CsvWrite(options).heap)
    ELSE options

WriteBufferReturn ==
    /\ enc.pc = "called"
    /\ "ok" \in EncoderOutcomes(enc.fmt, BufferOf(enc.fmt, enc.options))
    /\ enc' = [enc EXCEPT !.pc = "returned",
                          !.output = Output(enc.fmt, enc.options),
                          !.options = OptionsAfter(enc.fmt, enc.options)]
    /\ UNCHANGED <<exportVars, ac, plot>>

WriteBufferRaise ==
    /\ enc.pc = "called"
    /\ "raise" \in EncoderOutcomes(enc.fmt, BufferOf(enc.fmt, enc.options))
    /\ enc' = [enc EXCEPT !.pc = "raised"]
    /\ UNCHANGED <<exportVars, ac, plot>>

InitEnc ==
    /\ InitExport
    /\ ac = AcIdle
    /\ plot = PlotIdle
    /\ \E options \in EncPolls, fmt \in Formats :
        enc = [pc |-> "called", fmt |-> fmt, poll |-> options,
               options |-> options, output |-> <<>>]

NextEnc == WriteBufferReturn \/ WriteBufferRaise

SpecEnc == InitEnc /\ [][NextEnc]_vars

(***************************************************************************)
(* The chart encoders on worker threads.  write_buffer draws through the   *)
(* matplotlib.pyplot module: plt.figure() makes a new figure the module's   *)
(* current one, and plt.pie, plt.bar, plt.xlabel, plt.ylabel, plt.title    *)
(* and plt.savefig act on whatever figure is current when they are called. *)
(* to_thread is awaited inside "async with poll.lock", so two exports of   *)
(* one poll run write_buffer one after the other and exports of different  *)
(* polls run it at the same time.                                          *)
(***************************************************************************)
NumCharts == 2
Workers == 1 .. NumCharts
ChartFormats == {"pie", "bar"}

\* the polls the chart exports are asked for
ChartTitle(p) == IF p = 1 THEN "Lunch" ELSE "Dinner"
ChartOptions(p) ==
    IF p = 1 THEN << [text |-> "Pizza", voters |-> <<1>>],
                     [text |-> "Salad", voters |-> <<>>] >>
    ELSE << [text |-> "Pizza", voters |-> <<1, 2>>] >>

\* plt.figure(): a figure without axes content
EmptyFigure == [drawn |-> <<>>, axis |-> FALSE, title |-> ""]

\* plt.pie(arr, labels=labels) or plt.bar(labels, arr, width=0.4)
Drawing(fmt, p) ==
    [kind |-> fmt,
     arr |-> Counts(DictBuffer(ChartOptions(p))),
     labels |-> Labels(DictBuffer(ChartOptions(p)))]

\* the image write_buffer saves when no other thread uses pyplot
AloneImage(fmt, p) ==
    [drawn |-> <<Drawing(fmt, p)>>, axis |-> (fmt = "bar"),
     title |-> ChartTitle(p)]

\* the handler of worker w has the poll's lock and starts the thread
ToThread(w) ==
    /\ plot.th[w].pc = "waiting"
    /\ \A u \in Workers \ {w} :
        plot.th[u].poll = plot.th[w].poll => plot.th[u].pc \in {"waiting", "done"}
    /\ plot' = [plot EXCEPT !.th[w].pc = "figure"]
    /\ UNCHANGED <<exportVars, ac, enc>>

\* fig = plt.figure()
PltFigure(w) ==
    /\ plot.th[w].pc = "figure"
    /\ plot' = [plot EXCEPT !.figs = Append(@, EmptyFigure),
                            !.current = Len(plot.figs) + 1,
                            !.th[w].pc = "draw"]
    /\ UNCHANGED <<exportVars, ac, enc>>

\* plt.pie(...) or plt.bar(...): drawn on the current figure
PltDraw(w) ==
    /\ plot.th[w].pc = "draw"
    /\ plot' = [plot EXCEPT
                  !.figs[plot.current].drawn =
                      Append(@, Drawing(plot.th[w].fmt, plot.th[w].poll)),
                  !.th[w].pc = IF plot.th[w].fmt = "bar" THEN "axis" ELSE "title"]
    /\ UNCHANGED <<exportVars, ac, enc>>

\* plt.xlabel("Options"); plt.ylabel("No. of Votes")
PltAxisLabels(w) ==
    /\ plot.th[w].pc = "axis"
    /\ plot' = [plot EXCEPT !.figs[plot.current].axis = TRUE,
                            !.th[w].pc = "title"]
    /\ UNCHANGED <<exportVars, ac, enc>>

\* plt.title(_poll.title)
PltTitle(w) ==
    /\ plot.th[w].pc = "title"
    /\ plot' = [plot EXCEPT
                  !.figs[plot.current].title = ChartTitle(plot.th[w].poll),
                  !.th[w].pc = "save"]
    /\ UNCHANGED <<exportVars, ac, enc>>

\* plt.savefig(f, format="png"): the current figure goes into the thread's f
PltSavefig(w) ==
    /\ plot.th[w].pc = "save"
    /\ plot' = [plot EXCEPT !.th[w].out = plot.figs[plot.current],
                            !.th[w].pc = "done"]
    /\ UNCHANGED <<exportVars, ac, enc>>

InitPlot ==
    /\ InitExport
    /\ ac = AcIdle
    /\ enc = EncIdle
    /\ \E fmts \in [Workers -> ChartFormats], polls \in [Workers -> PollIds] :
        plot = [figs |-> <<>>, current |-> None,
                th |-> [w \in Workers |->
                          [pc |-> "waiting", fmt |-> fmts[w], poll |-> polls[w],
                           out |-> EmptyFigure]]]

NextPlot ==
    \/ \E w \in Workers : ToThread(w)
    \/ \E w \in Workers : PltFigure(w)
    \/ \E w \in Workers : PltDraw(w)
    \/ \E w \in Workers : PltAxisLabels(w)
    \/ \E w \in Workers : PltTitle(w)
    \/ \E w \in Workers : PltSavefig(w)

SpecPlot == InitPlot /\ [][NextPlot]_vars

(***************************************************************************)
(* Properties                                                              *)
(***************************************************************************)
Terminal(t) ==
    pc[t] \in {"delivered", "failed", "raised", "send_failed", "cancelled"}

Queued(t) == \E p \in PollIds : \E i \in 1 .. Len(waiters[p]) : waiters[p][i] = t

\* the task is inside the block of "async with poll.lock"
InBlock(t) == pc[t] \in {"encoding", "sending", "mutating"}

\* C1: while write_buffer runs on the worker thread (ENCODING), the request
\* does not hold the poll's lock, so the lock can be taken by others.
C1_NoLockWhileEncoding ==
    \A t \in Exporters :
        pc[t] = "encoding" => held[t] = None /\ ~locked[req[t].poll]

\* C2: while the request awaits ctx.send of the generated file, it does not
\* hold the poll's lock.
C2_NoLockWhileSending ==
    \A t \in Exporters : pc[t] = "sending" => held[t] = None

\* write_buffer has read every option of the poll
EncodedAll(t) ==
    \/ pc[t] = "sending"
    \/ pc[t] = "encoding" /\ Len(buffer[t]) = Len(poll_options[req[t].poll])

\* C3: the option/voter data an export has collected equals the complete
\* state the poll had at one instant after write_buffer started: never a mix
\* of voter lists from before and after a mutation.
C3_SnapshotIsOneInstant ==
    \A t \in Exporters :
        EncodedAll(t) => \E s \in hist[t] : buffer[t] = Collected(s)

\* an export of poll 1 has collected votes cast before it, while the mutator
\* is queued for the lock of the poll being exported
C3_Witness ==
    \E t \in Exporters :
        /\ pc[t] = "sending" /\ req[t].poll = 1
        /\ buffer[t] = Collected(poll_options[1])
        /\ SumLen(buffer[t]) > 0
        /\ pc[Mutator] = "waiting" /\ req[Mutator].poll = 1

\* C4: at most one task holds a given poll's lock; two tasks are never both
\* inside the locked region of the same poll.
C4_MutualExclusion ==
    /\ \A p \in PollIds : Cardinality({t \in Tasks : held[t] = p}) <= 1
    /\ \A t \in Tasks, u \in Tasks :
        (t # u /\ InBlock(t) /\ InBlock(u)) => req[t].poll # req[u].poll

\* two exports of the same poll: one in the locked region, the other queued
C4_Witness ==
    \E t \in Exporters, u \in Exporters :
        /\ t # u /\ req[t].poll = req[u].poll
        /\ pc[t] = "encoding" /\ held[t] = req[t].poll
        /\ pc[u] = "waiting"

\* C5: every export request ends with exactly one outcome sent to the
\* caller, a file or a failure message.
C5_ExactlyOneOutcome ==
    \A t \in Exporters :
        /\ Len(sent[t]) <= 1
        /\ Terminal(t) => Len(sent[t]) = 1

\* C6: when the encoder raises, a failure message is reported to the caller
\* and no file is handed to the delivery step.
C6_EncoderErrorReported ==
    \A t \in Exporters :
        pc[t] = "raised" =>
            /\ Len(sent[t]) = 1 /\ sent[t][1].kind = "message"
            /\ file[t] = "none"

\* C7: no terminal state of a request leaves its output buffer open.
C7_BufferClosed ==
    \A t \in Exporters : Terminal(t) => file[t] # "open"

\* C8: a request that has ended holds no lock and a lock is taken only while
\* a running task is inside its block; under fair scheduling every task
\* queued for a poll's lock gets it (unless the task is cancelled).
C8_LockReleased ==
    /\ [](\A t \in Exporters : Terminal(t) => held[t] = None /\ ~Queued(t))
    /\ [](\A p \in PollIds :
            locked[p] => \E t \in Tasks : held[t] = p /\ InBlock(t))
    /\ \A t \in Tasks :
        (pc[t] = "waiting") ~> (held[t] # None \/ pc[t] = "cancelled")

\* a request left the block by an exception of ctx.send and the lock of the
\* poll it exported is now held by the request that was queued behind it
C8_Witness ==
    \E t \in Exporters, u \in Exporters :
        /\ pc[t] = "send_failed" /\ file[t] = "open"
        /\ pc[u] = "encoding" /\ held[u] = 1
        /\ pc[Mutator] = "waiting" /\ req[Mutator].poll = 1

\* C9: a request whose poll reference does not resolve goes from RESOLVING
\* straight to FAILED (and only such a request does): the caller gets the
\* plain message, no lock is taken, no encoder runs, no file is delivered.
C9_NotFound ==
    /\ [][\A t \in Exporters :
            (pc[t] = "resolving" /\ pc'[t] # "resolving") =>
                (req'[t].poll = None <=> pc'[t] = "failed")]_vars
    /\ [](\A t \in Exporters :
            pc[t] = "failed" =>
                /\ held[t] = None /\ ~Queued(t)
                /\ buffer[t] = <<>> /\ file[t] = "none"
                /\ sent[t] = <<UnableMessage>>)

\* a request has failed on an unresolved reference while another one exports
C9_Witness ==
    \E t \in Exporters, u \in Exporters :
        /\ pc[t] = "failed" /\ sent[t] = <<UnableMessage>>
        /\ pc[u] = "sending"


Owner(id) == ac.polls[id].author_id

InResults(id) == \E i \in 1 .. Len(ac.results) : ac.results[i] = id

\* C10 as stated: for every query text, a caller without the manage
\* permission is only returned polls it owns.
C10_OnlyOwnPolls ==
    (ac.pc = "sent" /\ ~ac.manage) =>
        \A i \in 1 .. Len(ac.results) : Owner(ac.results[i]) = ac.author

\* C10 amended: for every non-empty query text, a caller without the manage
\* permission is only returned polls it owns, and a caller with it is
\* returned every poll of the guild that scores above the floor.
C10_OnlyOwnPollsWhenQuerying ==
    (ac.pc = "sent" /\ ac.input # "") =>
        /\ ~ac.manage =>
            \A i \in 1 .. Len(ac.results) : Owner(ac.results[i]) = ac.author
        /\ (ac.manage /\ Len(ac.polls) <= AutocompleteLimit) =>
            \A id \in DOMAIN ac.polls : Score(id) > ScoreFloor => InResults(id)

\* an unprivileged caller queried a guild that has a well-scoring poll of
\* somebody else and a well-scoring poll of its own, and got only its own
C10_Witness ==
    /\ ac.pc = "sent" /\ ~ac.manage /\ ac.input # ""
    /\ \E id \in DOMAIN ac.polls : Owner(id) # ac.author /\ Score(id) > ScoreFloor
    /\ ac.results # <<>>

\* C11: an empty query on a guild that has polls returns exactly the first
\* min(25, n) polls of the store's list, in the store's order, whoever owns
\* them and whatever they score.
C11_EmptyQueryFirstPolls ==
    (ac.pc = "sent" /\ ac.input = "" /\ ac.polls # <<>>) =>
        /\ Len(ac.results) = Min(AutocompleteLimit, Len(ac.polls))
        /\ \A i \in 1 .. Len(ac.results) :
            ac.results[i] = ac.polls[i].message_id

\* an unprivileged caller sent an empty query to a guild with more polls
\* than the limit and got the first 25, polls of others among them
C11_Witness ==
    /\ ac.pc = "sent" /\ ac.input = "" /\ ~ac.manage
    /\ Len(ac.polls) > AutocompleteLimit
    /\ Len(ac.results) = AutocompleteLimit
    /\ \E i \in 1 .. Len(ac.results) : Owner(ac.results[i]) # ac.author

Visible(id) == Owner(id) = ac.author \/ ac.manage

\* C12: a non-empty query returns only visible polls that score strictly
\* above 50, by descending score with equal scores in input order, at most
\* 25 of them; a visible poll above 50 is missing only when 25 polls that
\* score at least as much were returned, so without any visible score above
\* 50 the result is empty.
C12_RankedAboveFloor ==
    (ac.pc = "sent" /\ ac.input # "") =>
        /\ Len(ac.results) <= AutocompleteLimit
        /\ \A i \in 1 .. Len(ac.results) :
            /\ ac.results[i] \in DOMAIN ac.polls
            /\ Visible(ac.results[i])
            /\ Score(ac.results[i]) > ScoreFloor
        /\ \A i \in 1 .. Len(ac.results), j \in 1 .. Len(ac.results) :
            i < j =>
                \/ Score(ac.results[i]) > Score(ac.results[j])
                \/ /\ Score(ac.results[i]) = Score(ac.results[j])
                   /\ ac.results[i] < ac.results[j]
        /\ \A id \in DOMAIN ac.polls :
            (Visible(id) /\ Score(id) > ScoreFloor /\ ~InResults(id)) =>
                /\ Len(ac.results) = AutocompleteLimit
                /\ \A i \in 1 .. Len(ac.results) :
                    Score(ac.results[i]) >= Score(id)
        /\ (\A id \in DOMAIN ac.polls : Visible(id) => Score(id) <= ScoreFloor)
            => ac.results = <<>>

\* two visible polls with the same score above 50 were returned in input
\* order, behind a later poll that scores more, and a visible poll that
\* scores exactly 50 was left out
C12_Witness ==
    /\ ac.pc = "sent" /\ ac.input # ""
    /\ \E i \in 1 .. Len(ac.results), j \in 1 .. Len(ac.results) :
        /\ i < j
        /\ Score(ac.results[i]) = Score(ac.results[j])
        /\ ac.results[i] < ac.results[j]
    /\ \E i \in 1 .. Len(ac.results), j \in 1 .. Len(ac.results) :
        i < j /\ ac.results[i] > ac.results[j]
    /\ \E id \in DOMAIN ac.polls :
        Visible(id) /\ Score(id) = ScoreFloor /\ ~InResults(id)

\* self.bot.get_user(user_id) raises or returns None
LookupFails(v) == v \notin KnownUsers

\* the most voters any option of the poll has (0 without options)
MaxVoterCount(options) ==
    IF options = <<>> THEN 0
    ELSE MaxOf({Len(options[i].voters) : i \in DOMAIN options})

\* C13: for every poll the csv export produces rows: 1 + (most voters of any
\* option) of them, each with one cell per option; the first row is the
\* option texts in stored order, and row i holds the i-th voter of each option
\* or an empty cell.
C13_CsvShape ==
    (enc.fmt = "csv" /\ enc.pc # "called") =>
        /\ enc.pc = "returned"
        /\ Len(enc.output) = 1 + MaxVoterCount(enc.poll)
        /\ \A r \in DOMAIN enc.output : Len(enc.output[r]) = Len(enc.poll)
        /\ \A c \in DOMAIN enc.poll : enc.output[1][c] = enc.poll[c].text
        /\ \A c \in DOMAIN enc.poll, r \in 2 .. Len(enc.output) :
            enc.output[r][c] =
                IF r - 1 <= Len(enc.poll[c].voters)
                THEN get_user(enc.poll[c].voters[r - 1])
                ELSE None

\* C14: the csv export of a poll without options raises nothing and produces
\* the header row alone.
C14_EmptyCsvHeaderOnly ==
    (enc.fmt = "csv" /\ enc.poll = <<>> /\ enc.pc # "called") =>
        /\ enc.pc = "returned"
        /\ Len(enc.output) = 1

\* C15: the keys of the JSON document and of the YAML document are the option
\* texts in the poll's stored order.
C15_KeysInOptionOrder ==
    (enc.fmt \in {"json", "yaml"} /\ enc.pc = "returned") =>
        /\ Len(enc.output) = Len(enc.poll)
        /\ \A i \in DOMAIN enc.output : enc.output[i][1] = enc.poll[i].text

\* C16: a pie export of a poll whose options all have zero voters does not
\* end in a fault of the division by the zero sum: when the encoder fails,
\* the failure is reported to the caller.
C16_PieZeroVotesHandled ==
    [][\A t \in Exporters :
        (/\ pc[t] = "encoding" /\ req[t].fmt = "pie"
         /\ buffer[t] # <<>> /\ SumLen(buffer[t]) = 0
         /\ pc'[t] = "raised") => Len(sent'[t]) = 1]_vars

\* C17: the chart encoders work on one entry per stored option: counts[i] is
\* the number of voters of option i and labels[i] its text, also when two
\* options have the same text; the structured documents have one member per
\* option.
C17_OneEntryPerOption ==
    /\ (enc.fmt \in {"pie", "bar"} /\ enc.pc = "returned") =>
        /\ Len(enc.output.arr) = Len(enc.poll)
        /\ Len(enc.output.labels) = Len(enc.poll)
        /\ \A i \in DOMAIN enc.poll :
            /\ i \in DOMAIN enc.output.arr
            /\ enc.output.arr[i] = Len(enc.poll[i].voters)
            /\ enc.output.labels[i] = enc.poll[i].text
    /\ (enc.fmt \in {"json", "yaml"} /\ enc.pc = "returned") =>
        Len(enc.output) = Len(enc.poll)

\* C19: an export in any format leaves the poll's option sequence and every
\* option's voters as they were, whether write_buffer returns or raises.
C19_PollUnchanged ==
    enc.pc # "called" => enc.options = enc.poll

\* a csv export has padded the column of an option with fewer voters than
\* another
C19_Witness ==
    /\ enc.pc = "returned" /\ enc.fmt = "csv"
    /\ \E i \in DOMAIN enc.poll, j \in DOMAIN enc.poll :
        Len(enc.poll[i].voters) < Len(enc.poll[j].voters)
    /\ \E r \in DOMAIN enc.output, c \in DOMAIN enc.poll :
        r > 1 /\ enc.output[r][c] = None

HasFailedLookup(options) ==
    \E i \in DOMAIN options : \E j \in DOMAIN options[i].voters :
        LookupFails(options[i].voters[j])

\* option i is the last one with its text: the one a dict keyed by text keeps
LastOfItsText(options, i) ==
    \A j \in DOMAIN options : j > i => options[j].text # options[i].text

\* C20: when the lookup of a voter fails the export is not aborted by it and
\* the voter stands in the output under its raw identifier: in its csv cell,
\* in its place in the list of its option's member, and in its option's
\* count.  The only export that raises while a lookup has failed is the pie
\* chart whose counted options all have zero voters, which raises for the
\* zero sum whoever the voters are.
C20_LookupFallback ==
    (enc.pc # "called" /\ HasFailedLookup(enc.poll)) =>
        /\ enc.pc = "raised" =>
            /\ enc.fmt = "pie"
            /\ \A i \in DOMAIN enc.poll :
                LastOfItsText(enc.poll, i) => enc.poll[i].voters = <<>>
        /\ enc.fmt = "csv" =>
            \A c \in DOMAIN enc.poll : \A j \in DOMAIN enc.poll[c].voters :
                LookupFails(enc.poll[c].voters[j]) =>
                    enc.output[j + 1][c] = enc.poll[c].voters[j]
        /\ (enc.fmt \in {"json", "yaml"} /\ enc.pc = "returned") =>
            \A k \in DOMAIN enc.output : \E i \in DOMAIN enc.poll :
                /\ enc.poll[i].text = enc.output[k][1]
                /\ Len(enc.output[k][2]) = Len(enc.poll[i].voters)
                /\ \A j \in DOMAIN enc.poll[i].voters :
                    LookupFails(enc.poll[i].voters[j]) =>
                        enc.output[k][2][j] = enc.poll[i].voters[j]
        /\ (enc.fmt \in {"pie", "bar"} /\ enc.pc = "returned") =>
            \A k \in DOMAIN enc.output.arr : \E i \in DOMAIN enc.poll :
                /\ enc.poll[i].text = enc.output.labels[k]
                /\ enc.output.arr[k] = Len(enc.poll[i].voters)

\* a json export of a poll where an unknown user voted after a known one
C20_Witness ==
    /\ enc.pc = "returned" /\ enc.fmt = "json"
    /\ \E i \in DOMAIN enc.poll :
        /\ Len(enc.poll[i].voters) = 2
        /\ ~LookupFails(enc.poll[i].voters[1])
        /\ LookupFails(enc.poll[i].voters[2])

\* C18: each chart export that has saved its image saved the image it would
\* have saved running alone: its own poll's counts, labels and title, and
\* nothing of the other export.
C18_OwnImageOnly ==
    \A w \in Workers :
        plot.th[w].pc = "done" =>
            plot.th[w].out = AloneImage(plot.th[w].fmt, plot.th[w].poll)

====
